---- MODULE Spec2Model ----
(***************************************************************************)
(* A model of build_map.py: main() read as a pipeline of phases.  Each     *)
(* phase of main() is one action; `pc` is the position in main().          *)
(*                                                                         *)
(* Floating-point numbers are modelled as exact decimals m * 10^(-e) (or   *)
(* NaN).  Float noise is abstracted away; the one place where the binary   *)
(* representation decides the outcome, a round() at an exact decimal tie,  *)
(* is a nondeterministic choice between the two neighbours.                *)
(***************************************************************************)
EXTENDS Integers, Sequences, FiniteSets, TLC

(***************************************************************************)
(* Bounds of the model.                                                    *)
(***************************************************************************)
MaxLines == 2
MaxLinks == 2
MaxGens == 2
MaxStor == 1
MaxLoads == 2
MaxSnaps == 3
MaxBuses == 3

(***************************************************************************)
(* Program constants.                                                      *)
(***************************************************************************)
ID_LEN == 2
MW_PER_GW == 1000
MWH_PER_TWH == 1000000
SECONDS_PER_HOUR == 3600
ROUND_DIGITS == 6
FALLBACK_LAT == 49
FALLBACK_LON == 31

(***************************************************************************)
(* Decimal numbers: [nan, m, e] is m * 10^(-e); always kept normalised     *)
(* (no trailing zero digit while e > 0), so = is numeric equality.         *)
(***************************************************************************)
NaN == [nan |-> TRUE, m |-> 0, e |-> 0]

RECURSIVE Pow10(_)
Pow10(k) == IF k = 0 THEN 1 ELSE 10 * Pow10(k - 1)

RECURSIVE Log10(_)
Log10(d) == IF d = 1 THEN 0 ELSE 1 + Log10(d \div 10)

RECURSIVE Norm(_)
Norm(x) ==
    IF x.nan THEN NaN
    ELSE IF x.m = 0 THEN [nan |-> FALSE, m |-> 0, e |-> 0]
    ELSE IF x.e > 0 /\ x.m % 10 = 0
         THEN Norm([nan |-> FALSE, m |-> x.m \div 10, e |-> x.e - 1])
    ELSE x

Dec(m, e) == Norm([nan |-> FALSE, m |-> m, e |-> e])

Num(k) == Dec(k, 0)

IsNaN(x) == x.nan

MaxOf(a, b) == IF a >= b THEN a ELSE b

\* the mantissa of x written with e decimal places (e >= x.e)
Mant(x, e) == x.m * Pow10(e - x.e)

DecAdd(x, y) ==
    IF x.nan \/ y.nan THEN NaN
    ELSE LET e == MaxOf(x.e, y.e) IN Dec(Mant(x, e) + Mant(y, e), e)

DecMul(x, y) ==
    IF x.nan \/ y.nan THEN NaN ELSE Dec(x.m * y.m, x.e + y.e)

\* x / d for d a power of ten (1000.0, 1e6)
DecDivPow10(x, d) ==
    IF x.nan THEN NaN ELSE Dec(x.m, x.e + Log10(d))

FillNa0(x) == IF x.nan THEN Num(0) ELSE x

\* x is exactly half-way between two neighbours at nd decimal places
IsTie(x, nd) ==
    /\ ~x.nan
    /\ x.e > nd
    /\ 2 * (x.m % Pow10(x.e - nd)) = Pow10(x.e - nd)

\* round(x, nd); at an exact decimal tie `up` says which neighbour the
\* binary representation of the float falls to
RoundTo(x, nd, up) ==
    IF x.nan THEN NaN
    ELSE IF x.e <= nd THEN x
    ELSE LET p == Pow10(x.e - nd)
             f == x.m \div p
             r == x.m % p
         IN  IF 2 * r > p \/ (2 * r = p /\ up)
             THEN Dec(f + 1, nd)
             ELSE Dec(f, nd)

(***************************************************************************)
(* Strings that the program measures or sorts (node identifiers and        *)
(* technology labels) are sequences of characters.                         *)
(***************************************************************************)
CharCode(c) ==
    CASE c = "1" -> 49 [] c = "A" -> 65 [] c = "D" -> 68 [] c = "L" -> 76
      [] c = "M" -> 77 [] c = "P" -> 80 [] c = "U" -> 85 [] c = "X" -> 88
      [] c = "a" -> 97 [] c = "c" -> 99 [] c = "d" -> 100 [] c = "e" -> 101
      [] c = "g" -> 103 [] c = "i" -> 105 [] c = "l" -> 108 [] c = "n" -> 110
      [] c = "o" -> 111 [] c = "r" -> 114 [] c = "s" -> 115 [] c = "t" -> 116
      [] c = "w" -> 119

\* Python's str < str: lexicographic on code points
RECURSIVE StrLt(_, _)
StrLt(a, b) ==
    IF b = <<>> THEN FALSE
    ELSE IF a = <<>> THEN TRUE
    ELSE IF CharCode(Head(a)) # CharCode(Head(b))
         THEN CharCode(Head(a)) < CharCode(Head(b))
    ELSE StrLt(Tail(a), Tail(b))

UA == <<"U", "A">>
MD == <<"M", "D">>
PL == <<"P", "L">>
UA1 == <<"U", "A", "1">>
X == <<"X">>

WIND == <<"w", "i", "n", "d">>
GAS == <<"g", "a", "s">>
COAL == <<"c", "o", "a", "l">>
\* a missing value (None / NaN) in a label column
NoLabel == <<"<NA>">>
GENERATOR == <<"g", "e", "n", "e", "r", "a", "t", "o", "r">>
STORAGE == <<"s", "t", "o", "r", "a", "g", "e">>

(***************************************************************************)
(* Sequence helpers.                                                       *)
(***************************************************************************)
Range(s) == {s[i] : i \in 1..Len(s)}

SeqsUpTo(S, k) == UNION {[1..j -> S] : j \in 0..k}

RECURSIVE SumDec(_, _)
\* sum of f[i] over the index set I
SumDec(f, I) ==
    IF I = {} THEN Num(0)
    ELSE LET i == CHOOSE j \in I : TRUE
         IN  DecAdd(f[i], SumDec(f, I \ {i}))

\* pandas sum(): missing values are skipped (an all-missing sum is 0)
SumSkipNa(f, I) == SumDec(f, {i \in I : ~IsNaN(f[i])})

(***************************************************************************)
(* Paths and the file system.                                              *)
(***************************************************************************)
Path(abs, parts) == [abs |-> abs, parts |-> parts]

EmptyStr == Path(FALSE, <<>>)

\* pathlib's p / q
PathJoin(p, q) == IF q.abs THEN q ELSE Path(p.abs, p.parts \o q.parts)

BASE_DIR == Path(TRUE, <<"base">>)
PROJECT_ARG == "demo"
OTHER_PROJECT == "renamed"
REL_NET == Path(FALSE, <<"network_files", "net.nc">>)
ABS_NET == Path(TRUE, <<"data", "net.nc">>)

CfgPath == PathJoin(BASE_DIR, Path(FALSE, <<"config", PROJECT_ARG, "onepager.yaml">>))

NoKey == [present |-> FALSE, val |-> EmptyStr]
Key(v) == [present |-> TRUE, val |-> v]
NoProject == [present |-> FALSE, val |-> ""]
Project(v) == [present |-> TRUE, val |-> v]

(***************************************************************************)
(* The network model (what pypsa.Network holds after reading the file).    *)
(***************************************************************************)
Bus(name, x, y) == [name |-> name, x |-> x, y |-> y]

\* a timestamp of the time index: seconds, or NaT
Ts(t) == [nat |-> FALSE, t |-> t]
NaT == [nat |-> TRUE, t |-> 0]

\* kind: "datetime" (a pd.DatetimeIndex), "other" (any other index type),
\* "error" (reading or differencing the index raises)
Snapshots(kind, vals) == [kind |-> kind, vals |-> vals]

Load(bus, p_set) == [bus |-> bus, p_set |-> p_set]

Asset(bus, p_nom, carrier, type, technology) ==
    [bus |-> bus, p_nom |-> p_nom, carrier |-> carrier, type |-> type,
     technology |-> technology]

Line(bus0, bus1, s_nom, capacity) ==
    [bus0 |-> bus0, bus1 |-> bus1, s_nom |-> s_nom, capacity |-> capacity]

Link(bus0, bus1, p_nom) == [bus0 |-> bus0, bus1 |-> bus1, p_nom |-> p_nom]

TYPE_CANDIDATES == <<"carrier", "type", "technology">>

EmptyNet ==
    [buses |-> <<>>, snapshots |-> Snapshots("datetime", <<>>),
     has_p_set |-> FALSE, loads |-> <<>>,
     generators |-> <<>>, gen_cols |-> {}, storage_units |-> <<>>,
     stor_cols |-> {}, lines |-> <<>>, lines_has_capacity |-> FALSE,
     links |-> <<>>]

BaseBuses == <<Bus(UA, 31, 49), Bus(MD, 28, 47), Bus(UA1, 30, 50)>>

Hourly3 == Snapshots("datetime", <<Ts(0), Ts(3600), Ts(7200)>>)

\* two regions, one line of 500, two generators, one load (10, 20, 30)
BaseNet ==
    [buses |-> BaseBuses, snapshots |-> Hourly3,
     has_p_set |-> TRUE,
     loads |-> <<Load(UA, <<Num(10), Num(20), Num(30)>>)>>,
     generators |-> <<Asset(UA, Num(100), WIND, NoLabel, NoLabel),
                      Asset(UA, Num(200), GAS, NoLabel, NoLabel)>>,
     gen_cols |-> {"carrier"},
     storage_units |-> <<>>, stor_cols |-> {},
     lines |-> <<Line(UA, MD, Num(500), NaN)>>, lines_has_capacity |-> FALSE,
     links |-> <<>>]

BaseCfg == [project |-> NoProject, network_file |-> Key(REL_NET)]
BaseFiles == {CfgPath, PathJoin(BASE_DIR, REL_NET)}

VARIABLES
    fs_files,            \* the files that exist when the run starts
    cfg,                 \* the content of onepager.yaml
    net_file,            \* the content of the network-model file
    pc,                  \* position in main()
    error,               \* the exception that ended the run, or "none"
    project_name, net_path, n, dt_hours, selected_buses,
    energy_twh_per_bus, gen_cap_gw, gen_by_bus_type, stor_by_bus_type,
    bus_props, sel_lines, sel_links, center,
    edges,               \* the PolyLines added to the map, in order
    markers,             \* the CircleMarkers added to the map, in order
    out_dirs,            \* directories the run created
    out_files            \* files the run wrote

inputs == <<fs_files, cfg, net_file>>
locals == <<project_name, net_path, n, dt_hours, selected_buses,
            energy_twh_per_bus, gen_cap_gw, gen_by_bus_type, stor_by_bus_type,
            bus_props, sel_lines, sel_links, center>>
outputs == <<edges, markers, out_dirs, out_files>>
vars == <<inputs, pc, error, locals, outputs>>

NoCenter == [lat |-> 0, lon |-> 0, den |-> 0]

InitLocals ==
    /\ pc = "start"
    /\ error = "none"
    /\ project_name = ""
    /\ net_path = EmptyStr
    /\ n = EmptyNet
    /\ dt_hours = NaN
    /\ selected_buses = <<>>
    /\ energy_twh_per_bus = <<>>
    /\ gen_cap_gw = <<>>
    /\ gen_by_bus_type = <<>>
    /\ stor_by_bus_type = <<>>
    /\ bus_props = <<>>
    /\ sel_lines = <<>>
    /\ sel_links = <<>>
    /\ center = NoCenter
    /\ edges = <<>>
    /\ markers = <<>>
    /\ out_dirs = {}
    /\ out_files = {}

(***************************************************************************)
(* Paths & config (lines 30-63).                                           *)
(***************************************************************************)
\* cfg.get("project", project_arg)
ProjectName(c) == IF c.project.present THEN c.project.val ELSE PROJECT_ARG

\* `not net_spec`: the key is absent (None) or its value is empty
NetSpecMissing(c) == ~c.network_file.present \/ c.network_file.val = EmptyStr

\* net_path: relative paths are resolved against BASE_DIR
ResolveNetPath(spec) == IF spec.abs THEN spec ELSE PathJoin(BASE_DIR, spec)

\* the exception the configuration section raises, or "none"
ConfigError_noNetCheck(files, c) ==
    IF CfgPath \notin files THEN "FileNotFoundError"
    ELSE IF NetSpecMissing(c) THEN "ValueError"
    ELSE "none"

ConfigError(files, c) ==
    IF CfgPath \notin files THEN "FileNotFoundError"
    ELSE IF NetSpecMissing(c) THEN "ValueError"
    ELSE IF ResolveNetPath(c.network_file.val) \notin files
         THEN "FileNotFoundError"
    ELSE "none"

PathsAndConfig ==
    /\ pc = "start"
    /\ error' = ConfigError(fs_files, cfg)
    /\ pc' = IF error' = "none" THEN "load" ELSE "aborted"
    /\ project_name' = IF CfgPath \in fs_files THEN ProjectName(cfg) ELSE ""
    /\ net_path' = IF CfgPath \in fs_files /\ ~NetSpecMissing(cfg)
                   THEN ResolveNetPath(cfg.network_file.val) ELSE EmptyStr
    /\ UNCHANGED <<inputs, n, dt_hours, selected_buses, energy_twh_per_bus,
                   gen_cap_gw, gen_by_bus_type, stor_by_bus_type, bus_props,
                   sel_lines, sel_links, center, outputs>>

(***************************************************************************)
(* Load network (line 72).                                                 *)
(***************************************************************************)
LoadNetwork ==
    /\ pc = "load"
    /\ n' = net_file
    /\ pc' = "timestep"
    /\ UNCHANGED <<inputs, error, project_name, net_path, dt_hours,
                   selected_buses, energy_twh_per_bus, gen_cap_gw,
                   gen_by_bus_type, stor_by_bus_type, bus_props, sel_lines,
                   sel_links, center, outputs>>

(***************************************************************************)
(* Timestep hours (lines 74-82).                                           *)
(***************************************************************************)
\* snaps.to_series().diff().dropna(): the differences of consecutive
\* timestamps in seconds, by position; a difference with NaT is dropped
DiffIdx(vals) == {i \in 2..Len(vals) : ~vals[i].nat /\ ~vals[i - 1].nat}

Diffs(vals) == [i \in DiffIdx(vals) |-> vals[i].t - vals[i - 1].t]

RECURSIVE SortInts(_, _)
SortInts(f, I) ==
    IF I = {} THEN <<>>
    ELSE LET i == CHOOSE j \in I : \A k \in I : f[j] <= f[k]
         IN  <<f[i]>> \o SortInts(f, I \ {i})

\* Series.median(): NaN of nothing, the mean of the two middle values of an
\* even count
Median(f) ==
    LET s == SortInts(f, DOMAIN f)
        k == Len(s)
    IN  IF k = 0 THEN NaN
        ELSE IF k % 2 = 1 THEN Num(s[(k + 1) \div 2])
        ELSE Dec((s[k \div 2] + s[k \div 2 + 1]) * 5, 1)

\* x / d for an integer d, to four more decimal places than x has (exact for
\* the timestamps of this model, which are multiples of half an hour)
DecDivInt(x, d) ==
    IF x.nan THEN NaN ELSE Dec((x.m * Pow10(4)) \div d, x.e + 4)

DtHours_always(snaps) ==
    IF snaps.kind = "error" THEN Num(1)
    ELSE DecDivInt(Median(Diffs(snaps.vals)), SECONDS_PER_HOUR)

DtHours(snaps) ==
    IF snaps.kind = "error" THEN Num(1)
    ELSE IF Len(snaps.vals) > 1 /\ snaps.kind = "datetime"
         THEN DecDivInt(Median(Diffs(snaps.vals)), SECONDS_PER_HOUR)
    ELSE Num(1)

Timestep ==
    /\ pc = "timestep"
    /\ dt_hours' = DtHours(n.snapshots)
    /\ pc' = "select_buses"
    /\ UNCHANGED <<inputs, error, project_name, net_path, n, selected_buses,
                   energy_twh_per_bus, gen_cap_gw, gen_by_bus_type,
                   stor_by_bus_type, bus_props, sel_lines, sel_links, center,
                   outputs>>

(***************************************************************************)
(* Pick buses with 2-letter names (lines 84-86).                           *)
(***************************************************************************)
BusIndex(net) == [i \in 1..Len(net.buses) |-> net.buses[i].name]

BusNames(net) == Range(BusIndex(net))

IsRegionId_atLeast(b) == Len(b) >= ID_LEN

IsRegionId(b) == Len(b) = ID_LEN

SelectedBuses(net) == SelectSeq(BusIndex(net), IsRegionId)

SelectBuses ==
    /\ pc = "select_buses"
    /\ selected_buses' = SelectedBuses(n)
    /\ pc' = "energy"
    /\ UNCHANGED <<inputs, error, project_name, net_path, n, dt_hours,
                   energy_twh_per_bus, gen_cap_gw, gen_by_bus_type,
                   stor_by_bus_type, bus_props, sel_lines, sel_links, center,
                   outputs>>

(***************************************************************************)
(* pandas Series as functions from index labels to numbers.                *)
(***************************************************************************)
\* s.reindex(index=idx)
Reindex(s, idx) == [k \in idx |-> IF k \in DOMAIN s THEN s[k] ELSE NaN]

\* s.fillna(0.0)
FillNa(s) == [k \in DOMAIN s |-> FillNa0(s[k])]

\* s.add(t, fill_value=0.0)
AddFill(s, t) ==
    [k \in DOMAIN s \cup DOMAIN t |->
        IF k \in DOMAIN s /\ k \in DOMAIN t
        THEN IF s[k].nan /\ t[k].nan THEN NaN
             ELSE DecAdd(FillNa0(s[k]), FillNa0(t[k]))
        ELSE IF k \in DOMAIN s THEN s[k] ELSE t[k]]

\* s.get(k, 0.0)
GetOr0(s, k) == IF k \in DOMAIN s THEN s[k] ELSE Num(0)

(***************************************************************************)
(* Total demand per bus, TWh (lines 88-98).                                *)
(***************************************************************************)
\* n.loads_t.p_set.sum(axis=0) * dt_hours
EnergyMwhPerLoad(net, dt) ==
    [i \in 1..Len(net.loads) |->
        DecMul(SumSkipNa(net.loads[i].p_set, DOMAIN net.loads[i].p_set), dt)]

\* energy_mwh_per_load.groupby(load_bus_map).sum()
EnergyMwhPerBus(net, dt) ==
    IF net.has_p_set
    THEN LET perLoad == EnergyMwhPerLoad(net, dt)
         IN  [b \in {net.loads[i].bus : i \in DOMAIN perLoad} |->
                SumSkipNa(perLoad, {i \in DOMAIN perLoad : net.loads[i].bus = b})]
    ELSE <<>>

EnergyTwhPerBus_noDt(net, dt) ==
    LET mwh == EnergyMwhPerBus(net, Num(1))
        twh == [b \in DOMAIN mwh |-> DecDivPow10(mwh[b], MWH_PER_TWH)]
    IN  FillNa(Reindex(twh, BusNames(net)))

EnergyTwhPerBus(net, dt) ==
    LET mwh == EnergyMwhPerBus(net, dt)
        twh == [b \in DOMAIN mwh |-> DecDivPow10(mwh[b], MWH_PER_TWH)]
    IN  FillNa(Reindex(twh, BusNames(net)))

Energy ==
    /\ pc = "energy"
    /\ energy_twh_per_bus' = EnergyTwhPerBus(n, dt_hours)
    /\ pc' = "capacity"
    /\ UNCHANGED <<inputs, error, project_name, net_path, n, dt_hours,
                   selected_buses, gen_cap_gw, gen_by_bus_type,
                   stor_by_bus_type, bus_props, sel_lines, sel_links, center,
                   outputs>>

(***************************************************************************)
(* Installed capacity per bus, GW (lines 100-113).                         *)
(***************************************************************************)
\* table["p_nom"].fillna(0.0).groupby(table["bus"]).sum()
CapsByBus(rows) ==
    [b \in {rows[i].bus : i \in 1..Len(rows)} |->
        SumDec([i \in 1..Len(rows) |-> FillNa0(rows[i].p_nom)],
               {i \in 1..Len(rows) : rows[i].bus = b})]

GenCapMw_noStorage(net) ==
    LET zero == [b \in BusNames(net) |-> Num(0)]
    IN  IF Len(net.generators) > 0
        THEN AddFill(zero, CapsByBus(net.generators)) ELSE zero

GenCapMw(net) ==
    LET zero == [b \in BusNames(net) |-> Num(0)]
        g == IF Len(net.generators) > 0
             THEN AddFill(zero, CapsByBus(net.generators)) ELSE zero
    IN  IF Len(net.storage_units) > 0
        THEN AddFill(g, CapsByBus(net.storage_units)) ELSE g

GenCapGw(net) ==
    LET mw == GenCapMw(net)
        gw == [b \in DOMAIN mw |-> DecDivPow10(mw[b], MW_PER_GW)]
    IN  FillNa(Reindex(gw, BusNames(net)))

InstalledCapacity ==
    /\ pc = "capacity"
    /\ gen_cap_gw' = GenCapGw(n)
    /\ pc' = "by_type"
    /\ UNCHANGED <<inputs, error, project_name, net_path, n, dt_hours,
                   selected_buses, energy_twh_per_bus, gen_by_bus_type,
                   stor_by_bus_type, bus_props, sel_lines, sel_links, center,
                   outputs>>

(***************************************************************************)
(* Installed capacity by (bus, type), MW (lines 115-160).                  *)
(***************************************************************************)
RECURSIVE FirstIn(_, _)
\* the first candidate that is a column of the table, "" (None) if none is
FirstIn(cands, cols) ==
    IF cands = <<>> THEN ""
    ELSE IF Head(cands) \in cols THEN Head(cands)
    ELSE FirstIn(Tail(cands), cols)

TypeCol_last(cols) == FirstIn(<<"technology", "type", "carrier">>, cols)

TypeCol(cols) == FirstIn(TYPE_CANDIDATES, cols)

\* table.fillna({"p_nom": 0.0}).groupby(["bus", col])["p_nom"].sum():
\* groupby drops the rows whose key is missing
ByBusAndCol(rows, col) ==
    LET I == {i \in 1..Len(rows) : rows[i][col] # NoLabel}
    IN  [k \in {<<rows[i].bus, rows[i][col]>> : i \in I} |->
            SumDec([i \in 1..Len(rows) |-> FillNa0(rows[i].p_nom)],
                   {i \in I : rows[i].bus = k[1] /\ rows[i][col] = k[2]})]

\* table["p_nom"].groupby(table["bus"]).sum(), re-indexed as (bus, label)
ByBusSynthetic(rows, label) ==
    [k \in {<<rows[i].bus, label>> : i \in 1..Len(rows)} |->
        SumSkipNa([i \in 1..Len(rows) |-> rows[i].p_nom],
                  {i \in 1..Len(rows) : rows[i].bus = k[1]})]

ByBusType(rows, cols, label) ==
    LET col == IF Len(rows) > 0 THEN TypeCol(cols) ELSE ""
    IN  IF Len(rows) > 0 /\ col # ""
        THEN ByBusAndCol(rows, col)
        ELSE ByBusSynthetic(rows, label)

CapacityByType ==
    /\ pc = "by_type"
    /\ gen_by_bus_type' = ByBusType(n.generators, n.gen_cols, GENERATOR)
    /\ stor_by_bus_type' = ByBusType(n.storage_units, n.stor_cols, STORAGE)
    /\ pc' = "bus_props"
    /\ UNCHANGED <<inputs, error, project_name, net_path, n, dt_hours,
                   selected_buses, energy_twh_per_bus, gen_cap_gw, bus_props,
                   sel_lines, sel_links, center, outputs>>

(***************************************************************************)
(* Bus properties (lines 162-189).                                         *)
(***************************************************************************)
\* _types_for_bus: type -> GW of one bus; {} when the bus has no entry
TypesForBus(series, bus) ==
    [t \in {k[2] : k \in {q \in DOMAIN series : q[1] = bus}} |->
        DecDivPow10(series[<<bus, t>>], MW_PER_GW)]

BusRow(net, b) == CHOOSE r \in Range(net.buses) : r.name = b

\* the values whose rounding falls on an exact decimal tie
TieKeys(sel, energy, cap) ==
    {<<b, "demand_twh">> : b \in {c \in Range(sel) : IsTie(GetOr0(energy, c), ROUND_DIGITS)}}
    \cup
    {<<b, "installed_gw">> : b \in {c \in Range(sel) : IsTie(GetOr0(cap, c), ROUND_DIGITS)}}

BusProp(net, b, energy, cap, gens, stors, ups) ==
    [x |-> BusRow(net, b).x,
     y |-> BusRow(net, b).y,
     demand_twh |->
        RoundTo(GetOr0(energy, b), ROUND_DIGITS, <<b, "demand_twh">> \in ups),
     installed_gw |->
        RoundTo(GetOr0(cap, b), ROUND_DIGITS, <<b, "installed_gw">> \in ups),
     gen_types_gw |-> TypesForBus(gens, b),
     stor_types_gw |-> TypesForBus(stors, b)]

BusProps ==
    /\ pc = "bus_props"
    /\ \E ups \in SUBSET TieKeys(selected_buses, energy_twh_per_bus, gen_cap_gw) :
          bus_props' =
             [b \in Range(selected_buses) |->
                 BusProp(n, b, energy_twh_per_bus, gen_cap_gw,
                         gen_by_bus_type, stor_by_bus_type, ups)]
    /\ pc' = "select_edges"
    /\ UNCHANGED <<inputs, error, project_name, net_path, n, dt_hours,
                   selected_buses, energy_twh_per_bus, gen_cap_gw,
                   gen_by_bus_type, stor_by_bus_type, sel_lines, sel_links,
                   center, outputs>>

(***************************************************************************)
(* Lines and links between two selected buses; links suppress lines        *)
(* (lines 191-211).                                                        *)
(***************************************************************************)
\* the rows of a table with their index label (here: the row's position)
Named(rows) == [i \in 1..Len(rows) |-> [name |-> i, row |-> rows[i]]]

\* table[table["bus0"].isin(sel) & table["bus1"].isin(sel)]
BothSelected(rows, sel) ==
    LET Keep(r) == r.row.bus0 \in Range(sel) /\ r.row.bus1 \in Range(sel)
    IN  SelectSeq(Named(rows), Keep)

\* tuple(sorted([bus0, bus1]))
SortedPair_asIs(a, b) == <<a, b>>

SortedPair(a, b) == IF StrLt(b, a) THEN <<b, a>> ELSE <<a, b>>

LinkPairs(links) ==
    {SortedPair(links[i].row.bus0, links[i].row.bus1) : i \in 1..Len(links)}

SuppressLines_none(lines, links) == lines

SuppressLines(lines, links) ==
    IF lines # <<>>
    THEN LET Keep(r) == SortedPair(r.row.bus0, r.row.bus1) \notin LinkPairs(links)
         IN  SelectSeq(lines, Keep)
    ELSE lines

SelectEdges ==
    /\ pc = "select_edges"
    /\ sel_links' = BothSelected(n.links, selected_buses)
    /\ sel_lines' = SuppressLines(BothSelected(n.lines, selected_buses), sel_links')
    /\ pc' = "center"
    /\ UNCHANGED <<inputs, error, project_name, net_path, n, dt_hours,
                   selected_buses, energy_twh_per_bus, gen_cap_gw,
                   gen_by_bus_type, stor_by_bus_type, bus_props, center,
                   outputs>>

(***************************************************************************)
(* Capacity of a line / link, MW (lines 213-222).                          *)
(***************************************************************************)
cap_mw_from_line_zero(r, has_capacity) ==
    IF ~IsNaN(r.s_nom) THEN r.s_nom
    ELSE IF has_capacity THEN FillNa0(r.capacity)
    ELSE Num(0)

cap_mw_from_line(r, has_capacity) ==
    IF ~IsNaN(r.s_nom) THEN r.s_nom
    ELSE IF has_capacity THEN r.capacity
    ELSE NaN

cap_mw_from_link(r) == IF ~IsNaN(r.p_nom) THEN r.p_nom ELSE NaN

\* f"{capacity if not np.isnan(capacity) else 'n/a'} MW"
CapacityText(c) ==
    IF IsNaN(c) THEN [na |-> TRUE, mw |-> NaN] ELSE [na |-> FALSE, mw |-> c]

(***************************************************************************)
(* Map centre (lines 224-235): a mean is kept as sum / count.              *)
(***************************************************************************)
RECURSIVE SumInt(_, _)
SumInt(f, I) ==
    IF I = {} THEN 0
    ELSE LET i == CHOOSE j \in I : TRUE IN f[i] + SumInt(f, I \ {i})

Center_noFallback(net, sel) ==
    [lat |-> SumInt([i \in 1..Len(sel) |-> BusRow(net, sel[i]).y], 1..Len(sel)),
     lon |-> SumInt([i \in 1..Len(sel) |-> BusRow(net, sel[i]).x], 1..Len(sel)),
     den |-> Len(sel)]

Center(net, sel) ==
    IF Len(sel) > 0
    THEN [lat |-> SumInt([i \in 1..Len(sel) |-> BusRow(net, sel[i]).y], 1..Len(sel)),
          lon |-> SumInt([i \in 1..Len(sel) |-> BusRow(net, sel[i]).x], 1..Len(sel)),
          den |-> Len(sel)]
    ELSE [lat |-> FALLBACK_LAT, lon |-> FALLBACK_LON, den |-> 1]

MapCenter ==
    /\ pc = "center"
    /\ center' = Center(n, selected_buses)
    /\ pc' = "draw_lines"
    /\ UNCHANGED <<inputs, error, project_name, net_path, n, dt_hours,
                   selected_buses, energy_twh_per_bus, gen_cap_gw,
                   gen_by_bus_type, stor_by_bus_type, bus_props, sel_lines,
                   sel_links, outputs>>

(***************************************************************************)
(* Draw lines, links and buses (lines 237-326).                            *)
(***************************************************************************)
PolyLine(net, kind, color, r, cap) ==
    [kind |-> kind, name |-> r.name, bus0 |-> r.row.bus0, bus1 |-> r.row.bus1,
     locations |-> <<<<BusRow(net, r.row.bus0).y, BusRow(net, r.row.bus0).x>>,
                     <<BusRow(net, r.row.bus1).y, BusRow(net, r.row.bus1).x>>>>,
     color |-> color, capacity |-> CapacityText(cap)]

DrawLines ==
    /\ pc = "draw_lines"
    /\ edges' = edges \o
          [i \in 1..Len(sel_lines) |->
              PolyLine(n, "Line", "gray", sel_lines[i],
                       cap_mw_from_line(sel_lines[i].row, n.lines_has_capacity))]
    /\ pc' = "draw_links"
    /\ UNCHANGED <<inputs, error, locals, markers, out_dirs, out_files>>

DrawLinks ==
    /\ pc = "draw_links"
    /\ edges' = edges \o
          [i \in 1..Len(sel_links) |->
              PolyLine(n, "Link", "orange", sel_links[i],
                       cap_mw_from_link(sel_links[i].row))]
    /\ pc' = "draw_buses"
    /\ UNCHANGED <<inputs, error, locals, markers, out_dirs, out_files>>

RECURSIVE SortLabels(_)
\* sorted(labels): ascending in Python's string order
SortLabels(S) ==
    IF S = {} THEN <<>>
    ELSE LET a == CHOOSE t \in S : \A u \in S : u = t \/ StrLt(t, u)
         IN  <<a>> \o SortLabels(S \ {a})

\* the popup entries of one asset class: "none", or the types in sorted order
PopupTypes(types) ==
    LET order == SortLabels(DOMAIN types)
    IN  [none |-> DOMAIN types = {},
         items |-> [i \in 1..Len(order) |-> <<order[i], types[order[i]]>>]]

CircleMarker(b, p) ==
    [bus |-> b, location |-> <<p.y, p.x>>,
     demand_twh |-> p.demand_twh, installed_gw |-> p.installed_gw,
     generators |-> PopupTypes(p.gen_types_gw),
     storage |-> PopupTypes(p.stor_types_gw)]

\* bus_props.items(): a dict keeps insertion order, that of selected_buses
DrawBuses ==
    /\ pc = "draw_buses"
    /\ markers' = [i \in 1..Len(selected_buses) |->
                      CircleMarker(selected_buses[i], bus_props[selected_buses[i]])]
    /\ pc' = "save"
    /\ UNCHANGED <<inputs, error, locals, edges, out_dirs, out_files>>

(***************************************************************************)
(* Save (lines 328-336).                                                   *)
(***************************************************************************)
OutDir(name) == PathJoin(BASE_DIR, Path(FALSE, <<"output", name>>))

OutFile(name) == PathJoin(OutDir(name), Path(FALSE, <<"network_map.html">>))

Save ==
    /\ pc = "save"
    /\ out_dirs' = out_dirs \cup {PathJoin(BASE_DIR, Path(FALSE, <<"output">>)),
                                  OutDir(project_name)}
    /\ out_files' = out_files \cup {OutFile(project_name)}
    /\ pc' = "done"
    /\ UNCHANGED <<inputs, error, locals, edges, markers>>

Next ==
    \/ PathsAndConfig
    \/ LoadNetwork
    \/ Timestep
    \/ SelectBuses
    \/ Energy
    \/ InstalledCapacity
    \/ CapacityByType
    \/ BusProps
    \/ SelectEdges
    \/ MapCenter
    \/ DrawLines
    \/ DrawLinks
    \/ DrawBuses
    \/ Save

(***************************************************************************)
(* Inputs.  Every specification runs the whole of main(); they differ in   *)
(* which part of the input varies.                                         *)
(***************************************************************************)
PLBuses == <<Bus(PL, 21, 52), Bus(MD, 28, 47), Bus(UA, 31, 49)>>

\* configuration and files
FileChoices == SUBSET {CfgPath, PathJoin(BASE_DIR, REL_NET), ABS_NET}

CfgChoices ==
    [project : {NoProject, Project(OTHER_PROJECT)},
     network_file : {NoKey, Key(EmptyStr), Key(REL_NET), Key(ABS_NET)}]

\* time indexes: timestamps on a half-hour grid, or NaT
TimeStamps == {Ts(0), Ts(1800), Ts(3600), NaT}

TimeIndexes ==
    {Snapshots("datetime", v) : v \in SeqsUpTo(TimeStamps, MaxSnaps)}
    \cup {Snapshots(k, v) : k \in {"other", "error"}, v \in SeqsUpTo({Ts(0)}, MaxSnaps)}

ConstLoad(bus, k) == Load(bus, [i \in 1..k |-> Num(10)])

\* regular time indexes and load series over them
Regular(step, k) == Snapshots("datetime", [i \in 1..k |-> Ts((i - 1) * step)])

RegularIndexes == {Regular(step, k) : step \in {1800, 3600}, k \in 0..MaxSnaps}

SeriesOf(kind, k) ==
    [i \in 1..k |->
        CASE kind = "ramp"  -> Num(10 * i)
          [] kind = "small" -> IF i = 1 THEN Dec(5, 1) ELSE Num(0)
          [] kind = "gap"   -> IF i = 2 THEN NaN ELSE Num(5)]

LoadRows(k) ==
    {Load(b, SeriesOf(kind, k)) : b \in {UA, MD, UA1}, kind \in {"ramp", "small", "gap"}}

\* generation and storage assets
GenRows ==
    {Asset(UA, Num(100), WIND, GAS, COAL),
     Asset(UA, Num(200), GAS, GAS, WIND),
     Asset(UA, NaN, WIND, NoLabel, GAS),
     Asset(MD, Dec(4, 4), WIND, COAL, NoLabel),
     Asset(MD, Dec(15, 4), NoLabel, WIND, GAS),
     Asset(UA1, Num(100), GAS, WIND, WIND)}

GenColSets ==
    {{}, {"technology"}, {"type", "technology"}, {"carrier", "type", "technology"}}

StorRows ==
    {Asset(UA, Num(50), WIND, NoLabel, NoLabel),
     Asset(MD, NaN, GAS, NoLabel, NoLabel)}

StorColSets == {{}, {"carrier"}}

\* transmission elements
EdgeEnds == {<<UA, MD>>, <<MD, UA>>, <<UA, UA1>>, <<MD, PL>>}

EdgeLineRows == {Line(e[1], e[2], Num(500), NaN) : e \in EdgeEnds}

EdgeLinkRows == {Link(e[1], e[2], Num(300)) : e \in EdgeEnds}

CapLineRows ==
    {Line(UA, MD, s, c) : s \in {NaN, Num(0), Num(500)}, c \in {NaN, Num(0)}}

CapLinkRows == {Link(MD, PL, p) : p \in {NaN, Num(0), Num(300)}}

\* node tables: any rows with distinct identifiers, in any order
BusRows ==
    {Bus(UA, 31, 49), Bus(MD, 28, 47), Bus(PL, 21, 52), Bus(UA1, 30, 50),
     Bus(X, 35, 45)}

BusTables ==
    {t \in SeqsUpTo(BusRows, MaxBuses) :
        \A i, j \in 1..Len(t) : t[i].name = t[j].name => i = j}

\* transmission elements between selected and between unselected nodes
BusLineTables ==
    {<<>>, <<Line(UA, MD, Num(500), NaN)>>, <<Line(UA1, X, Num(500), NaN)>>}

BusLinkTables ==
    {<<>>, <<Link(MD, PL, Num(300))>>, <<Link(X, UA1, Num(300))>>}

InitConfig ==
    /\ fs_files \in FileChoices
    /\ cfg \in CfgChoices
    /\ net_file = BaseNet
    /\ InitLocals

InitTime ==
    /\ fs_files = BaseFiles
    /\ cfg = BaseCfg
    /\ net_file \in
          {[BaseNet EXCEPT !.snapshots = s,
                           !.loads = <<ConstLoad(UA, Len(s.vals))>>] :
              s \in TimeIndexes}
    /\ InitLocals

InitEnergy ==
    /\ fs_files = BaseFiles
    /\ cfg = BaseCfg
    /\ \E s \in RegularIndexes, h \in BOOLEAN :
          net_file \in
             {[BaseNet EXCEPT !.snapshots = s, !.has_p_set = h, !.loads = l] :
                 l \in SeqsUpTo(LoadRows(Len(s.vals)), MaxLoads)}
    /\ InitLocals

InitAgg ==
    /\ fs_files = BaseFiles
    /\ cfg = BaseCfg
    /\ net_file \in
          {[BaseNet EXCEPT !.generators = g, !.gen_cols = gc,
                           !.storage_units = st, !.stor_cols = sc] :
              g \in SeqsUpTo(GenRows, MaxGens), gc \in GenColSets,
              st \in SeqsUpTo(StorRows, MaxStor), sc \in StorColSets}
    /\ InitLocals

InitEdges ==
    /\ fs_files = BaseFiles
    /\ cfg = BaseCfg
    /\ net_file \in
          {[BaseNet EXCEPT !.buses = b, !.loads = <<>>, !.generators = <<>>,
                           !.lines = ln, !.links = lk] :
              b \in {BaseBuses, PLBuses},
              ln \in SeqsUpTo(EdgeLineRows, MaxLines),
              lk \in SeqsUpTo(EdgeLinkRows, MaxLinks)}
    /\ InitLocals

\* a table without a "capacity" column has no capacity values
CapTables ==
    {t \in [rows : SeqsUpTo(CapLineRows, MaxLines), has_capacity : BOOLEAN] :
        t.has_capacity \/ \A i \in 1..Len(t.rows) : IsNaN(t.rows[i].capacity)}

InitCap ==
    /\ fs_files = BaseFiles
    /\ cfg = BaseCfg
    /\ net_file \in
          {[BaseNet EXCEPT !.buses = PLBuses, !.loads = <<>>, !.generators = <<>>,
                           !.lines = t.rows, !.lines_has_capacity = t.has_capacity,
                           !.links = lk] :
              t \in CapTables, lk \in SeqsUpTo(CapLinkRows, MaxLinks)}
    /\ InitLocals

\* assets in whole MW, some without a nominal power or without a label value
ViewGenRows ==
    {Asset(UA, Num(100), WIND, NoLabel, NoLabel),
     Asset(UA, Num(200), NoLabel, NoLabel, NoLabel),
     Asset(UA, NaN, GAS, NoLabel, NoLabel),
     Asset(MD, Num(300), GAS, NoLabel, NoLabel)}

ViewStorRows ==
    {Asset(UA, Num(50), WIND, NoLabel, NoLabel),
     Asset(UA, Num(50), NoLabel, NoLabel, NoLabel)}

ViewColSets == {{}, {"carrier"}}

InitViews ==
    /\ fs_files = BaseFiles
    /\ cfg = BaseCfg
    /\ net_file \in
          {[BaseNet EXCEPT !.generators = g, !.gen_cols = gc,
                           !.storage_units = st, !.stor_cols = sc] :
              g \in SeqsUpTo(ViewGenRows, MaxGens), gc \in ViewColSets,
              st \in SeqsUpTo(ViewStorRows, MaxStor), sc \in ViewColSets}
    /\ InitLocals

InitBuses ==
    /\ fs_files = BaseFiles
    /\ cfg = BaseCfg
    /\ net_file \in
          {[BaseNet EXCEPT !.buses = b, !.lines = ln, !.links = lk] :
              b \in BusTables, ln \in BusLineTables, lk \in BusLinkTables}
    /\ InitLocals

Init ==
    \/ InitConfig
    \/ InitTime
    \/ InitEnergy
    \/ InitAgg
    \/ InitEdges
    \/ InitCap
    \/ InitBuses
    \/ InitViews

Spec == Init /\ [][Next]_vars
SpecConfig == InitConfig /\ [][Next]_vars
SpecTime == InitTime /\ [][Next]_vars
SpecEnergy == InitEnergy /\ [][Next]_vars
SpecAgg == InitAgg /\ [][Next]_vars
SpecEdges == InitEdges /\ [][Next]_vars
SpecCap == InitCap /\ [][Next]_vars
SpecBuses == InitBuses /\ [][Next]_vars
SpecViews == InitViews /\ [][Next]_vars

(***************************************************************************)
(* Vocabulary of the properties.                                           *)
(***************************************************************************)
Phases ==
    <<"start", "load", "timestep", "select_buses", "energy", "capacity",
      "by_type", "bus_props", "select_edges", "center", "draw_lines",
      "draw_links", "draw_buses", "save", "done">>

PhaseNo(p) == CHOOSE i \in 1..Len(Phases) : Phases[i] = p

\* main() has completed phase p
Past(p) == pc # "aborted" /\ PhaseNo(pc) > PhaseNo(p)

\* the selected regions: the nodes whose identifier has exactly 2 characters
Regions == {b \in BusNames(n) : Len(b) = 2}

\* element r connects a and b, in either endpoint order
Connects(r, a, b) ==
    (r.bus0 = a /\ r.bus1 = b) \/ (r.bus0 = b /\ r.bus1 = a)

\* row i of the class-A (line) / class-B (link) table is drawn
LineDrawn(i) ==
    \E k \in 1..Len(edges) :
        /\ edges[k].kind = "Line" /\ edges[k].name = i
        /\ edges[k].bus0 = n.lines[i].bus0 /\ edges[k].bus1 = n.lines[i].bus1

LinkDrawn(i) ==
    \E k \in 1..Len(edges) :
        /\ edges[k].kind = "Link" /\ edges[k].name = i
        /\ edges[k].bus0 = n.links[i].bus0 /\ edges[k].bus1 = n.links[i].bus1

LinkOn(a, b) == \E i \in 1..Len(n.links) : Connects(n.links[i], a, b)

LineOn(a, b) == \E i \in 1..Len(n.lines) : Connects(n.lines[i], a, b)

EdgesOn(kind, a, b) ==
    {k \in 1..Len(edges) : edges[k].kind = kind /\ Connects(edges[k], a, b)}

(***************************************************************************)
(* C1.  Edge suppression: once the edges are drawn, for every pair of      *)
(* selected regions connected by at least one link and at least one line   *)
(* (in either endpoint order) no line of the pair is drawn and every link  *)
(* of the pair is drawn; and every link between two selected regions is    *)
(* drawn whatever the lines are.                                           *)
(***************************************************************************)
C1_EdgeSuppression ==
    Past("draw_links") =>
        /\ \A a \in Regions, b \in Regions :
              LinkOn(a, b) /\ LineOn(a, b) =>
                 /\ EdgesOn("Line", a, b) = {}
                 /\ \A i \in 1..Len(n.links) :
                       Connects(n.links[i], a, b) => LinkDrawn(i)
        /\ \A i \in 1..Len(n.links) :
              n.links[i].bus0 \in Regions /\ n.links[i].bus1 \in Regions
                 => LinkDrawn(i)

\* a line UA-MD and a link MD-UA (the opposite endpoint order), drawn
C1_Witness ==
    /\ Past("draw_links")
    /\ \E i \in 1..Len(n.lines), j \in 1..Len(n.links) :
          /\ n.lines[i].bus0 = UA /\ n.lines[i].bus1 = MD
          /\ n.links[j].bus0 = MD /\ n.links[j].bus1 = UA
          /\ LinkDrawn(j)
          /\ ~LineDrawn(i)

(***************************************************************************)
(* C2 as stated: once the edges are drawn, no unordered pair of regions    *)
(* carries more than one drawn edge.                                       *)
(***************************************************************************)
C2_AtMostOneEdge ==
    Past("draw_links") =>
        \A a \in Regions, b \in Regions :
            Cardinality(EdgesOn("Line", a, b) \cup EdgesOn("Link", a, b)) <= 1

(***************************************************************************)
(* C2 amended: once the edges are drawn, no unordered pair of regions      *)
(* carries edges of both classes; the pair carries one edge per link when  *)
(* a link connects it, and otherwise one edge per line.                    *)
(***************************************************************************)
C2_OneClassPerPair ==
    Past("draw_links") =>
        \A a \in Regions, b \in Regions :
            /\ EdgesOn("Line", a, b) = {} \/ EdgesOn("Link", a, b) = {}
            /\ Cardinality(EdgesOn("Link", a, b)) =
                  Cardinality({i \in 1..Len(n.links) : Connects(n.links[i], a, b)})
            /\ Cardinality(EdgesOn("Line", a, b)) =
                  IF LinkOn(a, b) THEN 0
                  ELSE Cardinality({i \in 1..Len(n.lines) : Connects(n.lines[i], a, b)})

\* two lines on the same pair, in opposite endpoint orders, both drawn, next
\* to a link on another pair
C2_Witness ==
    /\ Past("draw_links")
    /\ Cardinality(EdgesOn("Line", UA, MD)) = 2
    /\ \E i \in 1..Len(n.lines), j \in 1..Len(n.lines) :
          n.lines[i].bus0 = UA /\ n.lines[j].bus0 = MD
    /\ Cardinality(EdgesOn("Link", MD, PL)) = 1

(***************************************************************************)
(* C3.  Endpoint filter: once the edges are drawn, every drawn edge has    *)
(* both endpoints among the selected regions; a link is drawn exactly when *)
(* both its endpoints are selected, and a line exactly when both its       *)
(* endpoints are selected and no link connects its unordered pair.         *)
(***************************************************************************)
C3_EndpointFilter ==
    Past("draw_links") =>
        /\ \A k \in 1..Len(edges) :
              /\ edges[k].bus0 \in Regions /\ edges[k].bus1 \in Regions
              /\ Len(edges[k].bus0) = 2 /\ Len(edges[k].bus1) = 2
        /\ Len(edges) =
              Cardinality({i \in 1..Len(n.lines) : LineDrawn(i)})
              + Cardinality({i \in 1..Len(n.links) : LinkDrawn(i)})
        /\ \A i \in 1..Len(n.links) :
              LinkDrawn(i) <=>
                 n.links[i].bus0 \in Regions /\ n.links[i].bus1 \in Regions
        /\ \A i \in 1..Len(n.lines) :
              LineDrawn(i) <=>
                 /\ n.lines[i].bus0 \in Regions /\ n.lines[i].bus1 \in Regions
                 /\ ~LinkOn(n.lines[i].bus0, n.lines[i].bus1)

\* one line touches a node that is not selected and is dropped, another line
\* between two selected regions is drawn
C3_Witness ==
    /\ Past("draw_links")
    /\ \E i \in 1..Len(n.lines), j \in 1..Len(n.lines) :
          /\ n.lines[i].bus0 \in Regions /\ n.lines[i].bus1 \notin Regions
          /\ ~LineDrawn(i)
          /\ LineDrawn(j)

(***************************************************************************)
(* Exact aggregates, written from the input tables.                        *)
(***************************************************************************)
\* x / 10^k
Scaled(x, k) == IF x.nan THEN NaN ELSE Dec(x.m, x.e + k)

Owned(rows, b) == {i \in 1..Len(rows) : rows[i].bus = b}

\* nominal power of row i, a missing value counting as 0
PNom0(rows) ==
    [i \in 1..Len(rows) |-> IF IsNaN(rows[i].p_nom) THEN Num(0) ELSE rows[i].p_nom]

\* sum of nominal power over the generation and storage assets owned by b, / 1000
ExactCapacity(b) ==
    Scaled(DecAdd(SumDec(PNom0(n.generators), Owned(n.generators, b)),
                  SumDec(PNom0(n.storage_units), Owned(n.storage_units, b))), 3)

\* sum over the samples of load i (missing samples are skipped)
LoadSum(i) ==
    LET p == n.loads[i].p_set
    IN  SumDec(p, {k \in DOMAIN p : ~IsNaN(p[k])})

\* (sum over the loads owned by b of the load's samples) * timestep / 1e6
ExactEnergy(b) ==
    IF n.has_p_set
    THEN Scaled(DecMul(SumDec([i \in 1..Len(n.loads) |-> LoadSum(i)],
                              Owned(n.loads, b)),
                       dt_hours), 6)
    ELSE Num(0)

\* r is x rounded to nd decimal places: r has at most nd places and lies
\* within half a unit of the last place of x
IsRounded(r, x, nd) ==
    /\ ~IsNaN(r) /\ ~IsNaN(x)
    /\ r.e <= nd
    /\ LET e == MaxOf(x.e, nd)
           d == Mant(r, e) - Mant(x, e)
       IN  2 * d <= Pow10(e - nd) /\ -2 * d <= Pow10(e - nd)

(***************************************************************************)
(* C4 as stated: once the bus properties are built, total_capacity of      *)
(* every selected region equals the sum of nominal power over the          *)
(* generation and storage assets it owns (missing as 0), divided by 1000.  *)
(***************************************************************************)
C4_ExactCapacity ==
    Past("bus_props") =>
        \A b \in Regions : bus_props[b].installed_gw = ExactCapacity(b)

(***************************************************************************)
(* C4 amended: total_capacity of every selected region is that sum divided *)
(* by 1000 and rounded to 6 decimal places (so equal to it when it has at  *)
(* most 6 decimal places, and 0 for a region without assets); the assets   *)
(* owned by a node that is not selected appear in no region's total.       *)
(***************************************************************************)
C4_RoundedCapacity ==
    Past("bus_props") =>
        /\ DOMAIN bus_props = Regions
        /\ \A b \in Regions :
              /\ IsRounded(bus_props[b].installed_gw, ExactCapacity(b), 6)
              /\ ExactCapacity(b).e <= 6 =>
                    bus_props[b].installed_gw = ExactCapacity(b)
              /\ Owned(n.generators, b) \cup Owned(n.storage_units, b) = {} =>
                    bus_props[b].installed_gw = Num(0)

\* MD owns a generator of 0.0004 and a storage unit with a missing nominal
\* power, a node that is not selected owns a generator: MD shows 0, UA shows 0
C4_Witness ==
    /\ Past("bus_props")
    /\ ExactCapacity(MD) = Dec(4, 7)
    /\ bus_props[MD].installed_gw = Num(0)
    /\ bus_props[UA].installed_gw = Num(0)
    /\ \E i \in 1..Len(n.storage_units) :
          n.storage_units[i].bus = MD /\ IsNaN(n.storage_units[i].p_nom)
    /\ \E i \in 1..Len(n.generators) : n.generators[i].bus = UA1

(***************************************************************************)
(* C5 as stated: once the bus properties are built, total_energy of every  *)
(* selected region equals (sum over its loads of the samples) * timestep   *)
(* / 1e6.                                                                  *)
(***************************************************************************)
C5_ExactEnergy ==
    Past("bus_props") =>
        \A b \in Regions : bus_props[b].demand_twh = ExactEnergy(b)

(***************************************************************************)
(* C5 amended: total_energy of every selected region is that quantity      *)
(* rounded to 6 decimal places; it is a number, and 0 when the region owns *)
(* no load or no time series exists.                                       *)
(***************************************************************************)
C5_RoundedEnergy ==
    Past("bus_props") =>
        \A b \in Regions :
            /\ IsRounded(bus_props[b].demand_twh, ExactEnergy(b), 6)
            /\ ExactEnergy(b).e <= 6 => bus_props[b].demand_twh = ExactEnergy(b)
            /\ Owned(n.loads, b) = {} \/ ~n.has_p_set =>
                  bus_props[b].demand_twh = Num(0)

\* one load on UA with three hourly samples 10, 20, 30: 60 / 1e6
C5_Witness ==
    /\ Past("bus_props")
    /\ n.has_p_set
    /\ n.snapshots = Hourly3
    /\ n.loads = <<Load(UA, <<Num(10), Num(20), Num(30)>>)>>
    /\ dt_hours = Num(1)
    /\ bus_props[UA].demand_twh = Dec(60, 6)
    /\ bus_props[MD].demand_twh = Num(0)

(***************************************************************************)
(* C6.  Once the bus properties are built, capacity_by_technology of each  *)
(* asset class and selected region maps every label found on the region's  *)
(* assets, in the first of the columns carrier, type, technology that the  *)
(* table has, to the summed nominal power / 1000 of the region's assets    *)
(* with that label; without any of the three columns the region's assets   *)
(* are all under 'generator' (generation) or 'storage' (storage); a region *)
(* without assets of the class, and every region of an empty class, gets   *)
(* the empty mapping.                                                      *)
(***************************************************************************)
LabelCol(cols) ==
    IF "carrier" \in cols THEN "carrier"
    ELSE IF "type" \in cols THEN "type"
    ELSE IF "technology" \in cols THEN "technology"
    ELSE ""

ExpectedTypes(rows, cols, synthetic, b) ==
    LET own == Owned(rows, b)
        col == LabelCol(cols)
    IN  IF own = {} THEN <<>>
        ELSE IF col = ""
        THEN [t \in {synthetic} |-> Scaled(SumDec(PNom0(rows), own), 3)]
        ELSE [t \in {rows[i][col] : i \in {j \in own : rows[j][col] # NoLabel}} |->
                Scaled(SumDec(PNom0(rows), {i \in own : rows[i][col] = t}), 3)]

C6_CapacityByTechnology ==
    Past("bus_props") =>
        \A b \in Regions :
            /\ bus_props[b].gen_types_gw =
                  ExpectedTypes(n.generators, n.gen_cols, GENERATOR, b)
            /\ bus_props[b].stor_types_gw =
                  ExpectedTypes(n.storage_units, n.stor_cols, STORAGE, b)

\* UA with 100 'wind' and 200 'gas' in the carrier column (the table also has
\* type and technology columns with other labels): {wind: 0.1, gas: 0.2};
\* the storage class is empty
C6_Witness ==
    /\ Past("bus_props")
    /\ n.generators = <<Asset(UA, Num(100), WIND, GAS, COAL),
                        Asset(UA, Num(200), GAS, GAS, WIND)>>
    /\ n.gen_cols = {"carrier", "type", "technology"}
    /\ n.storage_units = <<>>
    /\ DOMAIN bus_props[UA].gen_types_gw = {WIND, GAS}
    /\ bus_props[UA].gen_types_gw[WIND] = Dec(1, 1)
    /\ bus_props[UA].gen_types_gw[GAS] = Dec(2, 1)
    /\ DOMAIN bus_props[UA].stor_types_gw = {}
    /\ DOMAIN bus_props[MD].gen_types_gw = {}

(***************************************************************************)
(* C7.  Missing-timestep law: once the timestep is derived, it is exactly  *)
(* 1.0 hour for every time index of length 0 or 1, for every index that is *)
(* not a datetime index and for every index whose reading raises; deriving *)
(* it never ends the run with an error.                                    *)
(***************************************************************************)
C7_MissingTimestep ==
    /\ Past("timestep") =>
          /\ Len(n.snapshots.vals) <= 1 => dt_hours = Num(1)
          /\ n.snapshots.kind # "datetime" => dt_hours = Num(1)
    /\ pc = "select_buses" => error = "none"

\* a datetime index of a single timestamp
C7_Witness ==
    /\ pc = "select_buses"
    /\ n.snapshots.kind = "datetime"
    /\ Len(n.snapshots.vals) = 1
    /\ dt_hours = Num(1)

(***************************************************************************)
(* C8.  Once the timestep is derived it is a strictly positive number of   *)
(* hours, never zero, negative or undefined, whatever the time index.      *)
(***************************************************************************)
C8_PositiveTimestep ==
    Past("timestep") => ~IsNaN(dt_hours) /\ dt_hours.m > 0

(***************************************************************************)
(* C9.  Capacity display: once the edges are drawn, every drawn line shows *)
(* its s_nom when present, otherwise its capacity attribute when present,  *)
(* otherwise 'n/a'; every drawn link shows its p_nom when present,         *)
(* otherwise 'n/a'.  A shown number is never a stand-in for a missing      *)
(* value, and 0 is shown as 0.                                             *)
(***************************************************************************)
Shown(v) == [na |-> FALSE, mw |-> v]
NotAvailable == [na |-> TRUE, mw |-> NaN]

HasCapacityAttr(r) == n.lines_has_capacity /\ ~IsNaN(r.capacity)

C9_CapacityDisplay ==
    Past("draw_links") =>
        \A k \in 1..Len(edges) :
            /\ edges[k].kind = "Line" =>
                  LET r == n.lines[edges[k].name]
                  IN  edges[k].capacity =
                         IF ~IsNaN(r.s_nom) THEN Shown(r.s_nom)
                         ELSE IF HasCapacityAttr(r) THEN Shown(r.capacity)
                         ELSE NotAvailable
            /\ edges[k].kind = "Link" =>
                  LET r == n.links[edges[k].name]
                  IN  edges[k].capacity =
                         IF ~IsNaN(r.p_nom) THEN Shown(r.p_nom) ELSE NotAvailable
            /\ edges[k].capacity.na <=> IsNaN(edges[k].capacity.mw)

\* a line without s_nom showing its capacity attribute 0 as 0, a line with
\* neither showing n/a, a link without p_nom showing n/a
C9_Witness ==
    /\ Past("draw_links")
    /\ \E i, j, k \in 1..Len(edges) :
          /\ edges[i].kind = "Line" /\ IsNaN(n.lines[edges[i].name].s_nom)
          /\ edges[i].capacity = Shown(Num(0))
          /\ edges[j].kind = "Line" /\ edges[j].capacity = NotAvailable
          /\ edges[k].kind = "Link" /\ edges[k].capacity = NotAvailable

(***************************************************************************)
(* C10.  Configuration errors are fatal and precede all output: when the   *)
(* configuration file is missing, network_file is absent or empty, or the  *)
(* resolved network file does not exist, the run goes from its start       *)
(* straight to an abort with an error and never creates a directory or     *)
(* writes a file; outputs exist only in runs where all three checks pass.  *)
(***************************************************************************)
ConfigOk ==
    /\ CfgPath \in fs_files
    /\ cfg.network_file.present
    /\ cfg.network_file.val # EmptyStr
    /\ (IF cfg.network_file.val.abs THEN cfg.network_file.val
        ELSE Path(TRUE, BASE_DIR.parts \o cfg.network_file.val.parts)) \in fs_files

C10_ConfigErrorsFatal ==
    /\ ~ConfigOk =>
          /\ pc \in {"start", "aborted"}
          /\ pc = "aborted" => error \in {"FileNotFoundError", "ValueError"}
          /\ out_dirs = {} /\ out_files = {}
    /\ ConfigOk => pc # "aborted" /\ error = "none"
    /\ out_dirs # {} \/ out_files # {} => ConfigOk /\ pc = "done"
    /\ pc = "done" => out_files = {OutFile(project_name)}

\* the configuration names a network file that does not exist: aborted
C10_Witness ==
    /\ pc = "aborted"
    /\ error = "FileNotFoundError"
    /\ CfgPath \in fs_files
    /\ cfg.network_file = Key(REL_NET)
    /\ ABS_NET \in fs_files
    /\ out_dirs = {} /\ out_files = {}

(***************************************************************************)
(* C11.  Region selection and order, as stated: once the markers are       *)
(* drawn, the selected regions are exactly the nodes whose identifier has  *)
(* 2 characters, the selection and the markers are in ascending order of   *)
(* identifier whatever the order of the node table, and the technologies   *)
(* of every marker are in ascending order of label.                        *)
(***************************************************************************)
\* s is strictly ascending in string order
Ascending(s) == \A i \in 1..(Len(s) - 1) : StrLt(s[i], s[i + 1])

MarkerBuses == [i \in 1..Len(markers) |-> markers[i].bus]

ItemLabels(items) == [i \in 1..Len(items) |-> items[i][1]]

C11_SortedRegions ==
    Past("draw_buses") =>
        /\ Range(selected_buses) = Regions
        /\ Len(selected_buses) = Cardinality(Regions)
        /\ Ascending(selected_buses)
        /\ MarkerBuses = selected_buses
        /\ \A i \in 1..Len(markers) :
              /\ Ascending(ItemLabels(markers[i].generators.items))
              /\ Ascending(ItemLabels(markers[i].storage.items))

(***************************************************************************)
(* C12.  Empty selection: for every network in which no node identifier    *)
(* has exactly 2 characters, no phase of main() raises (the run is never   *)
(* aborted) and every step takes the run to the next phase, so that the    *)
(* straight-line run ends at "done"; no edge and no region marker is       *)
(* drawn, the map is centred on the fallback coordinate (49.0, 31.0) and   *)
(* the output document is written at the end.  For a network with          *)
(* selected regions the centre is the mean of their coordinates (sum of    *)
(* the coordinates over the number of regions).                            *)
(***************************************************************************)
\* no node of the network file has a 2-character identifier
NoRegion == \A i \in 1..Len(net_file.buses) : Len(net_file.buses[i].name) # 2

FallbackCenter == [lat |-> FALLBACK_LAT, lon |-> FALLBACK_LON, den |-> 1]

\* the centre is (sum of y / count, sum of x / count) over the regions
MeanCenter ==
    /\ center.den = Cardinality(Regions)
    /\ center.lat = SumInt([b \in Regions |-> BusRow(n, b).y], Regions)
    /\ center.lon = SumInt([b \in Regions |-> BusRow(n, b).x], Regions)

EmptySelectionSafe ==
    /\ NoRegion =>
          /\ pc # "aborted" /\ error = "none"
          /\ edges = <<>> /\ markers = <<>>
          /\ Past("center") => center = FallbackCenter
          /\ pc = "done" => out_files = {OutFile(project_name)}
    /\ ~NoRegion /\ Past("center") => MeanCenter

\* a step of a run without regions leads to the next phase
EmptySelectionStep ==
    NoRegion => pc' # "aborted" /\ PhaseNo(pc') = PhaseNo(pc) + 1

C12_EmptySelection == []EmptySelectionSafe /\ [][EmptySelectionStep]_vars

\* a table of two nodes, neither a region, joined by a line and by a link:
\* the run is complete, nothing is drawn, the document is written
C12_Witness ==
    /\ pc = "done"
    /\ NoRegion
    /\ BusIndex(n) = <<UA1, X>>
    /\ n.lines = <<Line(UA1, X, Num(500), NaN)>>
    /\ n.links = <<Link(X, UA1, Num(300))>>
    /\ edges = <<>> /\ markers = <<>>
    /\ center = FallbackCenter
    /\ out_files = {OutFile(project_name)}

(***************************************************************************)
(* C13.  Consistency of the two capacity views, as stated: once the bus    *)
(* properties are built, for every selected region the values of           *)
(* capacity_by_technology for generation plus those for storage add up to  *)
(* the region's total_capacity, for every asset collection, assets with a  *)
(* missing nominal power or a missing label value included.                *)
(***************************************************************************)
\* the sum of the values of a mapping from labels to capacities
SumValues(types) == SumDec(types, DOMAIN types)

C13_ViewsAgree ==
    Past("bus_props") =>
        \A b \in Regions :
            DecAdd(SumValues(bus_props[b].gen_types_gw),
                   SumValues(bus_props[b].stor_types_gw))
                = bus_props[b].installed_gw

====
